---- MODULE Spec2Model ----
(***************************************************************************)
(* Model of the alumni scraping server (src/server/index.js): the job      *)
(* registry, the upload / start / status handlers and the processing loop  *)
(* processScrapingJob, with the fetcher (scrapeLinkedInProfile) and the    *)
(* summarizer (generateSummary) as asynchronous calls that return or       *)
(* throw.  JavaScript runs one handler at a time up to its next await, so  *)
(* every action below is one such run-to-await segment.                    *)
(*                                                                         *)
(* fn holds what is checked on its own: one call of a function (the URL    *)
(* validator, the summarizer, the extractor) with its argument and its     *)
(* result, or the calls of the fetcher with their browsers.  The server's  *)
(* actions leave it alone.                                                 *)
(*                                                                         *)
(* Abstractions: timestamps (startedAt, completedAt, scrapedAt, the        *)
(* Date.now() part of ids) are reduced to "set"; job ids are 1, 2, ... in  *)
(* creation order; texts are strings.                                      *)
(***************************************************************************)
EXTENDS Integers, Sequences, FiniteSets, TLC

VARIABLES jobs, loops, res, fn

vars == <<jobs, loops, res, fn>>

-----------------------------------------------------------------------------
(* Bounds of the model *)

MaxJobs == 1
MaxRows == 3
\* the work of the processing loops the model follows: a call of
\* processScrapingJob counts one plus one for every profile it visits
MaxLoopWork == 6
\* the same budget in the specification with fairness and in the one with
\* both variants of the fetcher
MaxSideWork == 4

-----------------------------------------------------------------------------
(* JavaScript values and string helpers *)

\* the value of a property that was never assigned, or assigned undefined
Undefined == "<undefined>"

\* a || b on strings: the empty string is falsy
OrElse(a, b) == IF a # "" THEN a ELSE b

Min(a, b) == IF a < b THEN a ELSE b

\* s.substring(0, n)
Substring0(s, n) == SubSeq(s, 1, Min(n, Len(s)))

\* s.substring(k) for 0 <= k
SubstringFrom(s, k) == SubSeq(s, Min(k, Len(s)) + 1, Len(s))

CharAt(s, k) == SubSeq(s, k, k)

\* s.startsWith(p)
StartsWith(s, p) == Len(s) >= Len(p) /\ SubSeq(s, 1, Len(p)) = p

\* s.indexOf(p), 0-based, -1 when absent
IndexOf(s, p) ==
  LET hits == {k \in 0..(Len(s) - Len(p)) : SubSeq(s, k + 1, k + Len(p)) = p}
  IN IF hits = {} THEN -1 ELSE CHOOSE k \in hits : \A m \in hits : k <= m

\* s.includes(p)
Includes(s, p) == IndexOf(s, p) # -1

\* the characters trim() removes (those that occur in the texts used here)
WhiteSpace == {" ", "\n", "\t"}

RECURSIVE TrimStart(_)
TrimStart(s) ==
  IF Len(s) > 0 /\ CharAt(s, 1) \in WhiteSpace THEN TrimStart(SubstringFrom(s, 1)) ELSE s

RECURSIVE TrimEnd(_)
TrimEnd(s) ==
  IF Len(s) > 0 /\ CharAt(s, Len(s)) \in WhiteSpace THEN TrimEnd(Substring0(s, Len(s) - 1)) ELSE s

\* s.trim()
Trim(s) == TrimEnd(TrimStart(s))

-----------------------------------------------------------------------------
(* URL validator *)

UpperCase == "ABCDEFGHIJKLMNOPQRSTUVWXYZ"
LowerCase == "abcdefghijklmnopqrstuvwxyz"

\* s.toLowerCase(), half by half
RECURSIVE ToLowerCase(_)
ToLowerCase(s) ==
  IF s = "" THEN ""
  ELSE IF Len(s) = 1
    THEN LET k == IndexOf(UpperCase, s)
         IN IF k = -1 THEN s ELSE CharAt(LowerCase, k + 1)
  ELSE ToLowerCase(Substring0(s, Len(s) \div 2)) \o ToLowerCase(SubstringFrom(s, Len(s) \div 2))

\* the position of the first character of s that is in chars, Len(s) when none
FirstOf(s, chars) ==
  LET hits == {k \in 0..(Len(s) - 1) : CharAt(s, k + 1) \in chars}
  IN IF hits = {} THEN Len(s) ELSE CHOOSE k \in hits : \A m \in hits : k <= m

\* the URL parser writes a space of the path as %20
RECURSIVE EncodeSpaces(_)
EncodeSpaces(s) ==
  IF s = "" THEN ""
  ELSE (IF CharAt(s, 1) = " " THEN "%20" ELSE CharAt(s, 1)) \o EncodeSpaces(SubstringFrom(s, 1))

IsAlpha(s) == \A k \in 1..Len(s) : Includes(LowerCase, CharAt(s, k))

\* new URL(url) for URLs of the form scheme://authority/path?query#fragment:
\* surrounding spaces are dropped, scheme and host are lower-cased, user
\* info and port are not part of hostname, query and fragment are not part
\* of pathname, an empty path is "/".  ok = FALSE stands for the TypeError
\* the constructor throws.  (Dot segments are not resolved here.)
ParseUrl(url) ==
  LET u == Trim(url)
      sep == IndexOf(u, "://")
      scheme == IF sep > 0 THEN ToLowerCase(Substring0(u, sep)) ELSE ""
      rest == IF sep > 0 THEN SubstringFrom(u, sep + 3) ELSE ""
      cut == FirstOf(rest, {"/", "?", "#"})
      authority == Substring0(rest, cut)
      at == IndexOf(authority, "@")
      hostport == IF at = -1 THEN authority ELSE SubstringFrom(authority, at + 1)
      host == ToLowerCase(Substring0(hostport, FirstOf(hostport, {":"})))
      tail == SubstringFrom(rest, cut)
      rawPath == Substring0(tail, FirstOf(tail, {"?", "#"}))
      path == IF rawPath = "" THEN "/" ELSE EncodeSpaces(rawPath)
  IN IF scheme = "" \/ ~IsAlpha(scheme) \/ host = "" \/ Includes(host, " ")
       THEN [ok |-> FALSE, hostname |-> "", pathname |-> ""]
       ELSE [ok |-> TRUE, hostname |-> host, pathname |-> path]

\* isValidLinkedInUrl accepting a path of 4 characters (>= instead of >)
isValidLinkedInUrlBarePrefix(url) ==
  LET urlObj == ParseUrl(url)
  IN IF ~urlObj.ok THEN FALSE
     ELSE /\ urlObj.hostname = "www.linkedin.com"
          /\ StartsWith(urlObj.pathname, "/in/")
          /\ Len(urlObj.pathname) >= 4

isValidLinkedInUrl(url) ==
  LET urlObj == ParseUrl(url)
  IN IF ~urlObj.ok THEN FALSE
     ELSE /\ urlObj.hostname = "www.linkedin.com"
          /\ StartsWith(urlObj.pathname, "/in/")
          /\ Len(urlObj.pathname) > 4

-----------------------------------------------------------------------------
(* Summarizer (src/server/ai.js) *)

\* s.split('.')
RECURSIVE SplitDot(_)
SplitDot(s) ==
  LET k == IndexOf(s, ".")
  IN IF k = -1 THEN <<s>> ELSE <<Substring0(s, k)>> \o SplitDot(SubstringFrom(s, k + 1))

\* words.join(', ')
RECURSIVE Join(_)
Join(words) ==
  IF words = <<>> THEN ""
  ELSE IF Len(words) = 1 THEN words[1]
  ELSE words[1] \o ", " \o Join(Tail(words))

\* list.filter(word => text.toLowerCase().includes(word.toLowerCase()))
RECURSIVE FoundIn(_, _)
FoundIn(list, lower) ==
  IF list = <<>> THEN <<>>
  ELSE (IF Includes(lower, ToLowerCase(Head(list))) THEN <<Head(list)>> ELSE <<>>)
       \o FoundIn(Tail(list), lower)

Found(list, text) == FoundIn(list, ToLowerCase(text))

\* found.slice(0, n)
Slice0(found, n) == SubSeq(found, 1, Min(n, Len(found)))

extractKeywords(text) ==
  LET keywords == <<"management", "leadership", "strategy", "innovation", "technology",
                    "business development", "operations", "marketing", "finance",
                    "consulting", "product management", "project management",
                    "team building", "analytics">>
      found == Found(keywords, text)
  IN IF Len(found) > 0 THEN Slice0(found, 3) ELSE <<"business", "professional development">>

extractIndustryTerms(text) ==
  LET industries == <<"technology", "finance", "healthcare", "education", "consulting",
                      "manufacturing", "retail", "telecommunications", "energy", "media">>
      found == Found(industries, text)
  IN IF Len(found) > 0 THEN found[1] ELSE "business"

extractSkills(text) ==
  LET skills == <<"leadership", "strategy", "innovation", "management", "analysis",
                  "communication", "problem solving", "team collaboration", "planning">>
      found == Found(skills, text)
  IN IF Len(found) > 0 THEN Slice0(found, 2) ELSE <<"leadership", "strategy">>

\* parts.filter(s => s.trim().length > 10)
RECURSIVE LongerThan10(_)
LongerThan10(parts) ==
  IF parts = <<>> THEN <<>>
  ELSE (IF Len(Trim(Head(parts))) > 10 THEN <<Head(parts)>> ELSE <<>>)
       \o LongerThan10(Tail(parts))

\* an argument that is not a string (a number): truthy, without length or split
NonString == "<non-string>"

\* the values of Math.floor(Math.random() * summaries.length)
RandomIndexes == 0..3

\* the try block of generateSummary called with aboutText when Math.random
\* picks template r: the value it returns, or threw when it raises
GenerateSummaryBody(aboutText, r) ==
  IF aboutText = Undefined \/ aboutText = ""
    THEN [threw |-> FALSE, value |-> "Professional with experience in their field."]
  ELSE IF aboutText = NonString
    THEN [threw |-> TRUE, value |-> ""]
  ELSE IF Len(aboutText) < 10
    THEN [threw |-> FALSE, value |-> "Professional with experience in their field."]
  ELSE
    LET sentences == LongerThan10(SplitDot(aboutText))
        firstSentence == OrElse(IF sentences = <<>> THEN "" ELSE Trim(sentences[1]),
                                Substring0(aboutText, 100))
        summaries ==
          <<"Experienced professional with expertise in "
              \o Join(extractKeywords(aboutText)) \o ".",
            Substring0(firstSentence, 80) \o "... with proven track record in their industry.",
            "Professional with strong background in "
              \o extractIndustryTerms(aboutText) \o " and leadership experience.",
            "Accomplished individual with experience in "
              \o Join(extractSkills(aboutText)) \o " and strategic thinking.">>
    IN [threw |-> FALSE, value |-> summaries[r + 1]]

\* the promise of generateSummary rejected
Raised == "<raised>"

\* generateSummary without its try/catch
GenerateSummaryUncaught(aboutText, r) ==
  LET body == GenerateSummaryBody(aboutText, r)
  IN IF body.threw THEN Raised ELSE body.value

\* generateSummary (lines 4-32): the catch answers with a fixed sentence
GenerateSummary(aboutText, r) ==
  LET body == GenerateSummaryBody(aboutText, r)
  IN IF body.threw THEN "Professional with diverse experience and expertise." ELSE body.value

-----------------------------------------------------------------------------
(* Inputs *)

\* rows of an uploaded CSV file, as csv-parser hands them over
RowAnn == [name |-> "Ann", linkedin_url |-> "https://www.linkedin.com/in/ann "]
RowBob == [name |-> "", linkedin_url |-> "https://www.linkedin.com/in/bob"]
RowWrongHost == [name |-> "Eve", linkedin_url |-> "https://www.example.com/in/eve"]
RowNoUrl == [name |-> "Dan", linkedin_url |-> ""]

SampleRows == <<RowAnn, RowWrongHost, RowBob, RowAnn, RowBob>>

\* the uploaded files: the prefixes of SampleRows, and the same with a row
\* that has no URL in front
CsvFiles ==
  {SubSeq(SampleRows, 1, n) : n \in 0..Min(MaxRows, Len(SampleRows))}
  \cup {<<RowNoUrl>> \o SubSeq(SampleRows, 1, n) : n \in 0..Min(MaxRows - 1, Len(SampleRows))}

\* what scrapeLinkedInProfile (src/server/scraper.js) resolves to: the data object
\* of a profile page, every field possibly empty
ScrapedFull ==
  [name |-> "Jane Doe", title |-> "Product Manager", company |-> "Google",
   location |-> "Singapore", about |-> "I manage fintech products.",
   education |-> <<"MBA, Asian School of Business">>, pastRoles |-> <<>>]

ScrapedEmpty ==
  [name |-> "", title |-> "", company |-> "", location |-> "", about |-> "",
   education |-> <<>>, pastRoles |-> <<>>]

ScrapedSamples == {ScrapedFull, ScrapedEmpty}

\* what the shared-browser variant of scrapeLinkedInProfile (index.js lines
\* 579-597) resolves to when scraping failed: a record-shaped object with
\* status 'error' and no about text
ScrapedErrorShaped ==
  [name |-> "Unknown", title |-> "", company |-> "", location |-> "", about |-> "",
   education |-> <<>>, pastRoles |-> <<>>, summary |-> "", status |-> "error",
   error |-> "Navigation timeout of 30000 ms exceeded"]

\* the messages of the errors scrapeLinkedInProfile rejects with
ScrapeErrors == {"Failed to scrape profile: Navigation timeout of 30000 ms exceeded"}

\* what generateSummary resolves to
SummaryOutputs == {"Professional with strong background in finance and leadership experience."}

-----------------------------------------------------------------------------
(* The job registry and the handlers' responses *)

NoResponse == [code |-> 0, body |-> [sent |-> FALSE]]

NoData == ScrapedEmpty

\* no function call under separate check
NoCall == [op |-> "none", arg |-> "", out |-> ""]

Init ==
  /\ jobs = <<>>
  /\ loops = <<>>
  /\ res = NoResponse
  /\ fn = NoCall

JobIds == 1..MaxJobs

\* job ids a client may name: the ids the server can hand out and one it never does
RequestIds == JobIds \cup {0}

HasJob(jobId) == jobId \in DOMAIN jobs

-----------------------------------------------------------------------------
(* POST /api/upload *)

\* the 'data' handler: rows with a truthy linkedin_url, trimmed
RECURSIVE ParseRows(_)
ParseRows(rows) ==
  IF rows = <<>> THEN <<>>
  ELSE LET row == Head(rows)
       IN (IF row.linkedin_url # ""
             THEN <<[name |-> OrElse(row.name, ""), linkedin_url |-> Trim(row.linkedin_url)]>>
             ELSE <<>>) \o ParseRows(Tail(rows))

\* the 'end' handler's job object
NewJob(profiles) ==
  [status |-> "pending",
   totalProfiles |-> Len(profiles),
   processedProfiles |-> 0,
   successfulProfiles |-> 0,
   failedProfiles |-> 0,
   profiles |-> profiles,
   results |-> <<>>,
   startedAt |-> "set",
   completedAt |-> Undefined,
   currentProfile |-> Undefined,
   errors |-> <<>>]

Upload(file) ==
  /\ Len(jobs) < MaxJobs
  /\ LET profiles == ParseRows(file)
         job == NewJob(profiles)
     IN /\ jobs' = Append(jobs, job)
        /\ res' = [code |-> 200,
                   body |-> [jobId |-> Len(jobs) + 1, totalProfiles |-> Len(profiles)]]
  /\ UNCHANGED <<loops, fn>>

\* (the model follows upload requests only while the registry has room)
UploadNoFile ==
  /\ Len(jobs) < MaxJobs
  /\ res' = [code |-> 400, body |-> [error |-> "No file uploaded"]]
  /\ UNCHANGED <<jobs, loops, fn>>

UploadParseError ==
  /\ Len(jobs) < MaxJobs
  /\ res' = [code |-> 500, body |-> [error |-> "Failed to parse CSV file"]]
  /\ UNCHANGED <<jobs, loops, fn>>

-----------------------------------------------------------------------------
(* processScrapingJob: one loop per call, suspended at an await *)

\* Finish without the status assignment of line 263
FinishWithoutStatus(job) ==
  [job EXCEPT !.completedAt = "set", !.currentProfile = Undefined]

\* lines 262-265: the loop is over
Finish(job) ==
  [job EXCEPT !.status = "completed", !.completedAt = "set", !.currentProfile = Undefined]

\* lines 191-200: the loop's head for index i (0-based) up to the await of the fetch
\* result: the job and the loop's next position
LoopHead(job, jobId, i) ==
  IF i < Len(job.profiles)
    THEN LET profile == job.profiles[i + 1]
         IN [job |-> [job EXCEPT !.currentProfile = OrElse(profile.name, profile.linkedin_url)],
             loop |-> [jobId |-> jobId, i |-> i, pc |-> "scrape", scrapedData |-> NoData]]
    ELSE [job |-> Finish(job),
          loop |-> [jobId |-> jobId, i |-> i, pc |-> "done", scrapedData |-> NoData]]

\* AfterItem that waits after every item, the last one included
AfterItemTrailingDelay(job, jobId, i) ==
  [job |-> [job EXCEPT !.processedProfiles = @ + 1],
   loop |-> [jobId |-> jobId, i |-> i, pc |-> "delay", scrapedData |-> NoData]]

\* AfterItem with the counter written once, when the loop is left, instead of
\* after every item
AfterItemBatched(job, jobId, i) ==
  IF i < Len(job.profiles) - 1
    THEN [job |-> job,
          loop |-> [jobId |-> jobId, i |-> i, pc |-> "delay", scrapedData |-> NoData]]
    ELSE LoopHead([job EXCEPT !.processedProfiles = @ + i + 1], jobId, i + 1)

\* lines 253-260: count the item, then wait before the next one or leave the loop
AfterItem(job, jobId, i) ==
  LET counted == [job EXCEPT !.processedProfiles = @ + 1]
  IN IF i < Len(job.profiles) - 1
       THEN [job |-> counted,
             loop |-> [jobId |-> jobId, i |-> i, pc |-> "delay", scrapedData |-> NoData]]
       ELSE LoopHead(counted, jobId, i + 1)

\* SuccessResult that takes status and error over from the fetched object
\* when it has them
SuccessResultFromFetch(profile, i, scrapedData, summary) ==
  [id |-> i,
   name |-> OrElse(scrapedData.name, OrElse(profile.name, "Unknown")),
   title |-> OrElse(scrapedData.title, ""),
   company |-> OrElse(scrapedData.company, ""),
   location |-> OrElse(scrapedData.location, ""),
   education |-> scrapedData.education,
   summary |-> OrElse(summary, "No summary available"),
   linkedinUrl |-> profile.linkedin_url,
   pastRoles |-> scrapedData.pastRoles,
   scrapedAt |-> "set",
   status |-> IF "status" \in DOMAIN scrapedData THEN scrapedData.status ELSE "success",
   error |-> IF "error" \in DOMAIN scrapedData THEN scrapedData.error ELSE Undefined]

\* lines 213-228
SuccessResult(profile, i, scrapedData, summary) ==
  [id |-> i,
   name |-> OrElse(scrapedData.name, OrElse(profile.name, "Unknown")),
   title |-> OrElse(scrapedData.title, ""),
   company |-> OrElse(scrapedData.company, ""),
   location |-> OrElse(scrapedData.location, ""),
   education |-> scrapedData.education,
   summary |-> OrElse(summary, "No summary available"),
   linkedinUrl |-> profile.linkedin_url,
   pastRoles |-> scrapedData.pastRoles,
   scrapedAt |-> "set",
   status |-> "success",
   error |-> Undefined]

\* RecordSuccess that writes the record over the last one instead of appending
RecordSuccessOverwrites(job, i, scrapedData, summary) ==
  LET result == SuccessResult(job.profiles[i + 1], i, scrapedData, summary)
  IN [job EXCEPT !.results = IF @ = <<>> THEN <<result>> ELSE [@ EXCEPT ![Len(@)] = result],
                 !.successfulProfiles = @ + 1]

RecordSuccess(job, i, scrapedData, summary) ==
  [job EXCEPT !.results = Append(@, SuccessResult(job.profiles[i + 1], i, scrapedData, summary)),
              !.successfulProfiles = @ + 1]

\* lines 233-250
FailedResult(profile, i, message) ==
  [id |-> i,
   name |-> OrElse(profile.name, "Unknown"),
   title |-> "", company |-> "", location |-> "",
   education |-> <<>>,
   summary |-> "",
   linkedinUrl |-> profile.linkedin_url,
   pastRoles |-> <<>>,
   scrapedAt |-> "set",
   status |-> "failed",
   error |-> message]

\* RecordFailure that only notes the failure, without the push of line 248
RecordFailureErrorsOnly(job, i, message) ==
  [job EXCEPT !.failedProfiles = @ + 1,
              !.errors = Append(@, job.profiles[i + 1].linkedin_url \o ": " \o message)]

\* RecordFailure without the push to job.errors of line 250
RecordFailureNoEntry(job, i, message) ==
  [job EXCEPT !.results = Append(@, FailedResult(job.profiles[i + 1], i, message)),
              !.failedProfiles = @ + 1]

RecordFailure(job, i, message) ==
  [job EXCEPT !.results = Append(@, FailedResult(job.profiles[i + 1], i, message)),
              !.failedProfiles = @ + 1,
              !.errors = Append(@, job.profiles[i + 1].linkedin_url \o ": " \o message)]

\* line 209
SummaryFallback(about) == Substring0(about, 200) \o "..."

LoopIds == DOMAIN loops

At(w, pc) == w \in LoopIds /\ loops[w].pc = pc

\* install the outcome of a segment of loop w
Resume(w, out) ==
  /\ jobs' = [jobs EXCEPT ![loops[w].jobId] = out.job]
  /\ loops' = [loops EXCEPT ![w] = out.loop]
  /\ res' = NoResponse
  /\ UNCHANGED fn

\* the fetch resolved: to the await of generateSummary, or past the item
ScrapeReturn(w, scrapedData) ==
  /\ At(w, "scrape")
  /\ LET l == loops[w]
         job == jobs[l.jobId]
     IN IF scrapedData.about # ""
          THEN /\ loops' = [loops EXCEPT ![w] = [l EXCEPT !.pc = "summary",
                                                          !.scrapedData = scrapedData]]
               /\ UNCHANGED <<jobs, fn>>
               /\ res' = NoResponse
          ELSE Resume(w, AfterItem(RecordSuccess(job, l.i, scrapedData, ""), l.jobId, l.i))

\* ScrapeThrow without the inner try/catch: the rejection reaches the outer
\* catch (lines 269-274) and aborts the job
ScrapeThrowAbortsJob(w, message) ==
  /\ At(w, "scrape")
  /\ LET l == loops[w]
     IN Resume(w, [job |-> [jobs[l.jobId] EXCEPT !.status = "failed",
                                                 !.errors = Append(@, "Job failed: " \o message)],
                   loop |-> [l EXCEPT !.pc = "done"]])

\* the fetch rejected: the inner catch
ScrapeThrow(w, message) ==
  /\ At(w, "scrape")
  /\ LET l == loops[w]
     IN Resume(w, AfterItem(RecordFailure(jobs[l.jobId], l.i, message), l.jobId, l.i))

\* what reading .message of undefined throws
NoMessageError == "Cannot read properties of undefined (reading 'message')"

\* Abort that also drops what the job has collected
AbortDropsResults(job, message) ==
  [job EXCEPT !.status = "failed",
              !.results = <<>>,
              !.processedProfiles = 0,
              !.errors = Append(@, "Job failed: " \o message)]

\* lines 269-274: the outer catch
Abort(job, message) ==
  [job EXCEPT !.status = "failed", !.errors = Append(@, "Job failed: " \o message)]

\* the fetch rejected with undefined instead of an Error: error.message in
\* the inner catch (line 245) throws, the TypeError reaches the outer catch
\* and the loop is left
ScrapeReject(w) ==
  /\ At(w, "scrape")
  /\ LET l == loops[w]
     IN Resume(w, [job |-> Abort(jobs[l.jobId], NoMessageError),
                   loop |-> [l EXCEPT !.pc = "done"]])

SummaryReturn(w, summary) ==
  /\ At(w, "summary")
  /\ LET l == loops[w]
     IN Resume(w, AfterItem(RecordSuccess(jobs[l.jobId], l.i, l.scrapedData, summary),
                            l.jobId, l.i))

\* SummaryThrow without the try/catch around generateSummary: the rejection
\* reaches the item's catch and the item is recorded as failed
SummaryThrowFailsItem(w) ==
  /\ At(w, "summary")
  /\ LET l == loops[w]
     IN Resume(w, AfterItem(RecordFailure(jobs[l.jobId], l.i, "summarizer unavailable"),
                            l.jobId, l.i))

\* the summarizer rejected: the fallback of line 209
SummaryThrow(w) ==
  /\ At(w, "summary")
  /\ LET l == loops[w]
     IN Resume(w, AfterItem(RecordSuccess(jobs[l.jobId], l.i, l.scrapedData,
                                          SummaryFallback(l.scrapedData.about)),
                            l.jobId, l.i))

\* the 3 second timer fired: i++ and the loop's head
DelayElapsed(w) ==
  /\ At(w, "delay")
  /\ LET l == loops[w]
     IN Resume(w, LoopHead(jobs[l.jobId], l.jobId, l.i + 1))

-----------------------------------------------------------------------------
(* POST /api/scrape and GET /api/scrape/status/:jobId *)

NotFound == [code |-> 404, body |-> [error |-> "Job not found"]]

\* lines 111-117: mark the job running, run the loop up to its first await, answer
StartJob(jobId) ==
  LET out == LoopHead([jobs[jobId] EXCEPT !.status = "running"], jobId, 0)
  IN /\ jobs' = [jobs EXCEPT ![jobId] = out.job]
     /\ loops' = Append(loops, out.loop)
     /\ res' = [code |-> 200, body |-> out.job]
     /\ UNCHANGED fn

\* the work of the loops started so far: each loop visits every profile of its job
RECURSIVE Committed(_)
Committed(ls) ==
  IF ls = <<>> THEN 0 ELSE 1 + Len(jobs[Head(ls).jobId].profiles) + Committed(Tail(ls))

\* Start without the lookup guard of lines 106-108: job.status is assigned on
\* undefined, the TypeError reaches the handler's catch (lines 118-121)
StartWithoutLookup(jobId) ==
  IF ~HasJob(jobId)
    THEN /\ res' = [code |-> 500, body |-> [error |-> "Failed to start scraping"]]
         /\ UNCHANGED <<jobs, loops, fn>>
    ELSE /\ Committed(loops) + 1 + Len(jobs[jobId].profiles) <= MaxLoopWork
         /\ StartJob(jobId)

\* the model follows a start request only while the loops stay within MaxLoopWork
Start(jobId) ==
  IF ~HasJob(jobId)
    THEN /\ res' = NotFound
         /\ UNCHANGED <<jobs, loops, fn>>
    ELSE /\ Committed(loops) + 1 + Len(jobs[jobId].profiles) <= MaxLoopWork
         /\ StartJob(jobId)

Poll(jobId) ==
  /\ res' = IF HasJob(jobId) THEN [code |-> 200, body |-> jobs[jobId]] ELSE NotFound
  /\ UNCHANGED <<jobs, loops, fn>>

-----------------------------------------------------------------------------

Next ==
  \/ \E file \in CsvFiles : Upload(file)
  \/ UploadNoFile
  \/ UploadParseError
  \/ \E jobId \in RequestIds : Start(jobId)
  \/ \E jobId \in RequestIds : Poll(jobId)
  \/ \E w \in LoopIds, scrapedData \in ScrapedSamples : ScrapeReturn(w, scrapedData)
  \/ \E w \in LoopIds, message \in ScrapeErrors : ScrapeThrow(w, message)
  \/ \E w \in LoopIds, summary \in SummaryOutputs : SummaryReturn(w, summary)
  \/ \E w \in LoopIds : SummaryThrow(w)
  \/ \E w \in LoopIds : DelayElapsed(w)

Spec == Init /\ [][Next]_vars

\* one step of the processing loop w: the call it awaits settles
LoopStep(w) ==
  \/ \E scrapedData \in ScrapedSamples : ScrapeReturn(w, scrapedData)
  \/ \E message \in ScrapeErrors : ScrapeThrow(w, message)
  \/ \E summary \in SummaryOutputs : SummaryReturn(w, summary)
  \/ SummaryThrow(w)
  \/ DelayElapsed(w)

\* an awaited fetch or summarizer call eventually returns or throws and a
\* 3 second timer eventually fires: while some loop is suspended, one of the
\* suspended loops is eventually resumed
\* the start handler while the loops stay within MaxSideWork
SideStart(jobId) ==
  /\ HasJob(jobId) => Committed(loops) + 1 + Len(jobs[jobId].profiles) <= MaxSideWork
  /\ Start(jobId)

FairNext ==
  \/ \E file \in CsvFiles : Upload(file)
  \/ UploadNoFile
  \/ UploadParseError
  \/ \E jobId \in RequestIds : SideStart(jobId)
  \/ \E jobId \in RequestIds : Poll(jobId)
  \/ \E w \in LoopIds, scrapedData \in ScrapedSamples : ScrapeReturn(w, scrapedData)
  \/ \E w \in LoopIds, message \in ScrapeErrors : ScrapeThrow(w, message)
  \/ \E w \in LoopIds, summary \in SummaryOutputs : SummaryReturn(w, summary)
  \/ \E w \in LoopIds : SummaryThrow(w)
  \/ \E w \in LoopIds : DelayElapsed(w)

FairSpec == Init /\ [][FairNext]_vars /\ WF_vars(\E w \in LoopIds : LoopStep(w))

-----------------------------------------------------------------------------
(* The server with either variant of the fetcher *)

\* the fetch resolves to the data of scraper.js or to the error-shaped object
\* of the shared-browser variant
VariantSamples == ScrapedSamples \cup {ScrapedErrorShaped}

VariantNext ==
  \/ \E file \in CsvFiles : Upload(file)
  \/ UploadNoFile
  \/ UploadParseError
  \/ \E jobId \in RequestIds : SideStart(jobId)
  \/ \E jobId \in RequestIds : Poll(jobId)
  \/ \E w \in LoopIds, scrapedData \in VariantSamples : ScrapeReturn(w, scrapedData)
  \/ \E w \in LoopIds, message \in ScrapeErrors : ScrapeThrow(w, message)
  \/ \E w \in LoopIds, summary \in SummaryOutputs : SummaryReturn(w, summary)
  \/ \E w \in LoopIds : SummaryThrow(w)
  \/ \E w \in LoopIds : DelayElapsed(w)

VariantSpec == Init /\ [][VariantNext]_vars

-----------------------------------------------------------------------------
(* The server with a fetcher that may reject with a value that is not an Error *)

\* (the fetchers of the repository reject with Error objects only)
AbortNext ==
  \/ \E file \in CsvFiles : Upload(file)
  \/ UploadNoFile
  \/ UploadParseError
  \/ \E jobId \in RequestIds : SideStart(jobId)
  \/ \E jobId \in RequestIds : Poll(jobId)
  \/ \E w \in LoopIds, scrapedData \in ScrapedSamples : ScrapeReturn(w, scrapedData)
  \/ \E w \in LoopIds, message \in ScrapeErrors : ScrapeThrow(w, message)
  \/ \E w \in LoopIds : ScrapeReject(w)
  \/ \E w \in LoopIds, summary \in SummaryOutputs : SummaryReturn(w, summary)
  \/ \E w \in LoopIds : SummaryThrow(w)
  \/ \E w \in LoopIds : DelayElapsed(w)

AbortSpec == Init /\ [][AbortNext]_vars

-----------------------------------------------------------------------------
(* The summary of one item, checked on its own *)

RECURSIVE Repeat(_, _)
Repeat(s, n) ==
  IF n = 0 THEN "" ELSE IF n = 1 THEN s ELSE Repeat(s, n \div 2) \o Repeat(s, n - n \div 2)

\* about texts: empty, shorter than 10 characters, without a sentence of more
\* than 10 characters, with and without the words ai.js looks for, and long
AboutTexts ==
  {"", "Hi", "Engineer.", "A.B.C.D.E.F.G.H", "Teacher and coach",
   "I manage fintech products.",
   "I lead strategy and innovation in finance. Ten years of management consulting.",
   "LEADERSHIP and Technology. Enjoys problem solving and team collaboration.",
   "Product management, project management and business development at scale",
   "Worked in healthcare, retail and media. Planning and analysis of operations.",
   Repeat("Seasoned finance leader. ", 10),
   Repeat("x", 120)}

\* what generateSummary may be called with
SummaryArgs == AboutTexts \cup {Undefined, NonString}

\* texts a summarizer backend may answer with (the Gemini variant of
\* ai.js lines 77-100 returns response.text().trim())
BackendTexts == {"", Repeat("Seasoned finance leader ", 8)}

\* how the awaited generateSummary(about) may settle
SummarizerOutcomes(about) ==
  {[threw |-> TRUE, value |-> ""]}
  \cup {[threw |-> FALSE, value |-> GenerateSummary(about, r)] : r \in RandomIndexes}
  \cup {[threw |-> FALSE, value |-> text] : text \in BackendTexts}

\* index.js lines 202-211 and 220: the summary stored in the record of an
\* item whose page has the given about text
StoredSummary(about, outcome) ==
  LET summary == IF about = "" THEN ""
                 ELSE IF outcome.threw THEN SummaryFallback(about)
                 ELSE outcome.value
  IN SuccessResult(ParseRows(<<RowBob>>)[1], 0, [ScrapedFull EXCEPT !.about = about],
                   summary).summary

SummaryInit ==
  /\ jobs = <<>>
  /\ loops = <<>>
  /\ res = NoResponse
  /\ fn \in {[op |-> "generateSummary", arg |-> arg, out |-> Undefined] : arg \in SummaryArgs}
            \cup {[op |-> "storeSummary", arg |-> about, out |-> Undefined] : about \in AboutTexts}

\* a call of generateSummary(fn.arg)
CallGenerateSummary ==
  /\ fn.op = "generateSummary"
  /\ \E r \in RandomIndexes : fn' = [fn EXCEPT !.out = GenerateSummary(fn.arg, r)]
  /\ UNCHANGED <<jobs, loops, res>>

\* the loop's summary steps for an item with about text fn.arg
StoreSummary ==
  /\ fn.op = "storeSummary"
  /\ \E outcome \in SummarizerOutcomes(fn.arg) :
       fn' = [fn EXCEPT !.out = StoredSummary(fn.arg, outcome)]
  /\ UNCHANGED <<jobs, loops, res>>

SummaryNext == CallGenerateSummary \/ StoreSummary

SummarySpec == SummaryInit /\ [][SummaryNext]_vars

-----------------------------------------------------------------------------
(* The URL validator, checked on its own *)

UrlSchemes == {"https://", "http://", "ftp://", ""}
UrlHosts ==
  {"www.linkedin.com", "linkedin.com", "www.example.com", "WWW.LinkedIn.com",
   "www.linkedin.com:8080", ""}
UrlPaths ==
  {"", "/", "/in", "/in/", "/in/a", "/in/ann/", "/pub/ann", "/IN/ann",
   "/in/?x=1", "/in/ann?x=1", "/in/#top"}

\* the texts the validator is called with
UrlSamples ==
  {scheme \o host \o path : scheme \in UrlSchemes, host \in UrlHosts, path \in UrlPaths}
  \cup {"not a url", " https://www.linkedin.com/in/ann ", "https://www.linkedin.com/in/ ",
        "https://www.linkedin.com/in/a b", "https://www linkedin.com/in/ann"}

ValidatorInit ==
  /\ jobs = <<>>
  /\ loops = <<>>
  /\ res = NoResponse
  /\ fn \in {[op |-> "isValidLinkedInUrl", arg |-> url, done |-> FALSE, out |-> FALSE] :
              url \in UrlSamples}

\* a call of isValidLinkedInUrl(fn.arg)
CallIsValidLinkedInUrl ==
  /\ fn.op = "isValidLinkedInUrl"
  /\ ~fn.done
  /\ fn' = [fn EXCEPT !.done = TRUE, !.out = isValidLinkedInUrl(fn.arg)]
  /\ UNCHANGED <<jobs, loops, res>>

ValidatorNext == CallIsValidLinkedInUrl

ValidatorSpec == ValidatorInit /\ [][ValidatorNext]_vars

-----------------------------------------------------------------------------
(* The extractor of the fetchers (src/server/scraper.js, src/unnamed/part_004 *)
(* and the shared-browser variant of src/server/index.js), checked on its own *)

\* s.split(sep) for a non-empty separator
RECURSIVE Split(_, _)
Split(s, sep) ==
  LET k == IndexOf(s, sep)
  IN IF k = -1 THEN <<s>>
     ELSE <<Substring0(s, k)>> \o Split(SubstringFrom(s, k + Len(sep)), sep)

\* $(selector).first() of a selector that matches nothing, and of one that
\* matches an element with the given text
NoElement == [length |-> 0, text |-> ""]
Element(text) == [length |-> 1, text |-> text]

\* the for loop over a field's selectors run to its end: without the break,
\* the last candidate with text wins
RECURSIVE LastCandidateText(_)
LastCandidateText(elements) ==
  IF elements = <<>> THEN ""
  ELSE LET rest == LastCandidateText(Tail(elements))
       IN IF rest # "" THEN rest
          ELSE IF Head(elements).length # 0 /\ Trim(Head(elements).text) # ""
            THEN Trim(Head(elements).text)
          ELSE ""

\* the for loop over a field's selectors (name: scraper.js lines 64-70):
\* elements[k] is $(selector).first() of the k-th selector
RECURSIVE FirstCandidateText(_)
FirstCandidateText(elements) ==
  IF elements = <<>> THEN ""
  ELSE IF Head(elements).length # 0 /\ Trim(Head(elements).text) # ""
    THEN Trim(Head(elements).text)
  ELSE FirstCandidateText(Tail(elements))

\* scraper.js lines 84-91: title and company out of the trimmed text of the
\* title element; parts[1] of a one-element split would be undefined and
\* its trim() a TypeError
SplitTitle(titleText) ==
  IF Includes(titleText, " at ")
    THEN LET parts == Split(titleText, " at ")
         IN IF Len(parts) < 2 THEN [threw |-> TRUE, title |-> "", company |-> ""]
            ELSE [threw |-> FALSE, title |-> Trim(parts[1]), company |-> Trim(parts[2])]
    ELSE [threw |-> FALSE, title |-> titleText, company |-> ""]

\* scraper.js lines 73-94: the loop over titleSelectors
ExtractTitle(elements) ==
  LET titleText == FirstCandidateText(elements)
  IN IF titleText = "" THEN [threw |-> FALSE, title |-> "", company |-> ""]
     ELSE SplitTitle(titleText)

\* index.js lines 551-566: title and company of the record the
\* shared-browser fetcher returns
SharedTitleCompany(profileData) ==
  LET titleParts == Split(profileData.title, " at ")
      company == IF profileData.title # "" /\ Len(titleParts) > 1
                   THEN Trim(titleParts[2]) ELSE ""
  IN [threw |-> FALSE,
      title |-> profileData.title,
      company |-> OrElse(company,
                         IF profileData.pastRoles = <<>> THEN ""
                         ELSE profileData.pastRoles[1].company)]

\* scraper.js lines 127-133: the education entries
RECURSIVE ExtractEducation(_)
ExtractEducation(elements) ==
  IF elements = <<>> THEN <<>>
  ELSE LET educationText == Trim(Head(elements))
       IN (IF educationText # "" /\ Len(educationText) > 10
             THEN <<Substring0(educationText, 200)>> ELSE <<>>)
          \o ExtractEducation(Tail(elements))

\* lines.filter(line => line.trim())
RECURSIVE NonBlank(_)
NonBlank(lines) ==
  IF lines = <<>> THEN <<>>
  ELSE (IF Trim(Head(lines)) # "" THEN <<Head(lines)>> ELSE <<>>) \o NonBlank(Tail(lines))

\* scraper.js lines 136-150: the past roles
RECURSIVE ExtractPastRoles(_)
ExtractPastRoles(elements) ==
  IF elements = <<>> THEN <<>>
  ELSE LET expText == Trim(Head(elements))
           lines == NonBlank(Split(expText, "\n"))
       IN (IF expText # "" /\ Len(expText) > 10 /\ Len(lines) >= 2
             THEN <<[title |-> Trim(lines[1]), company |-> Trim(lines[2]),
                     years |-> IF Len(lines) > 2 THEN Trim(lines[3]) ELSE ""]>>
             ELSE <<>>)
          \o ExtractPastRoles(Tail(elements))

\* the most selectors a field is looked up with
MaxSelectors == 3

\* the most elements a list selector matches
MaxElements == 2

\* what a selector of name, location or about may match
FieldElements == {NoElement, Element(""), Element("  "), Element(" Ann "), Element("Bob")}

\* headlines: without the separator, with one, with two, with the words
\* of the separator but not the separator
Headlines ==
  {"Engineer", "Engineer at Acme", "Engineer  at  Acme ", "Engineer at Labs at Acme",
   "Creator at large at Acme at Home", "Chat Acme", "Engineer at"}

\* what a selector of the title may match
TitleElements == {NoElement, Element(" ")} \cup {Element(headline) : headline \in Headlines}

\* texts of the elements of the education and experience sections
SectionTexts ==
  {"", "MIT", " Stanford University, BSc ", Repeat("University of ", 16),
   "Engineer\nAcme\n2019 - 2021", " Manager \n\n Labs ", "Consultant at large"}

\* the lists of 1 to n values of a set
Lists(values, n) == UNION {[1..len -> values] : len \in 1..n}

NotRun == [done |-> FALSE]
Ran(outcome) == [done |-> TRUE, threw |-> outcome.threw, value |-> outcome]

ExtractInit ==
  /\ jobs = <<>>
  /\ loops = <<>>
  /\ res = NoResponse
  /\ fn \in {[op |-> "field", arg |-> elements, out |-> NotRun]
               : elements \in Lists(FieldElements, MaxSelectors)}
            \cup {[op |-> "title", arg |-> elements, out |-> NotRun]
                   : elements \in Lists(TitleElements, MaxSelectors - 1)}
            \cup {[op |-> "sharedTitle", arg |-> [title |-> Trim(headline), pastRoles |-> roles],
                    out |-> NotRun]
                   : headline \in Headlines \cup {""},
                     roles \in {<<>>, <<[title |-> "Intern", company |-> "Initech", years |-> ""]>>}}
            \cup {[op |-> list, arg |-> elements, out |-> NotRun]
                   : list \in {"education", "pastRoles"},
                     elements \in {<<>>} \cup Lists(SectionTexts, MaxElements)}

\* the lookup of name, location or about in a page whose selectors match fn.arg
ExtractField ==
  /\ fn.op = "field" /\ ~fn.out.done
  /\ fn' = [fn EXCEPT !.out = Ran([threw |-> FALSE, text |-> FirstCandidateText(fn.arg)])]
  /\ UNCHANGED <<jobs, loops, res>>

ExtractTitleCompany ==
  /\ fn.op = "title" /\ ~fn.out.done
  /\ fn' = [fn EXCEPT !.out = Ran(ExtractTitle(fn.arg))]
  /\ UNCHANGED <<jobs, loops, res>>

ExtractSharedTitleCompany ==
  /\ fn.op = "sharedTitle" /\ ~fn.out.done
  /\ fn' = [fn EXCEPT !.out = Ran(SharedTitleCompany(fn.arg))]
  /\ UNCHANGED <<jobs, loops, res>>

ExtractEducationList ==
  /\ fn.op = "education" /\ ~fn.out.done
  /\ fn' = [fn EXCEPT !.out = Ran([threw |-> FALSE, list |-> ExtractEducation(fn.arg)])]
  /\ UNCHANGED <<jobs, loops, res>>

ExtractPastRolesList ==
  /\ fn.op = "pastRoles" /\ ~fn.out.done
  /\ fn' = [fn EXCEPT !.out = Ran([threw |-> FALSE, list |-> ExtractPastRoles(fn.arg)])]
  /\ UNCHANGED <<jobs, loops, res>>

ExtractNext ==
  \/ ExtractField
  \/ ExtractTitleCompany
  \/ ExtractSharedTitleCompany
  \/ ExtractEducationList
  \/ ExtractPastRolesList

ExtractSpec == ExtractInit /\ [][ExtractNext]_vars

-----------------------------------------------------------------------------
(* The fetchers and their browsers, checked on their own:                    *)
(* scrapeLinkedInProfile of src/server/scraper.js, of src/unnamed/part_004   *)
(* (with the navigation retry) and of the shared-browser variant in          *)
(* src/server/index.js lines 298-598.  Every job's loop awaits one call at a *)
(* time; the calls of different jobs interleave at their awaits.             *)
(* fn = [variant, calls, browsers, globalBrowser, globalPage]: calls[c] is   *)
(* the call made by job c's loop, browsers[b] the b-th browser launched.     *)
(* browser.close() is taken to succeed.                                      *)

\* the most jobs that fetch at the same time, and the most fetches of a job
MaxFetchers == 2
MaxFetches == 2

Variants == {"scraper.js", "part_004", "shared"}

\* part_004 line 50: let retries = 3
Retries == 3

\* what page.goto may reject with
GotoErrors == {"Navigation timeout of 60000 ms exceeded", "net::ERR_NAME_NOT_RESOLVED"}

NullPageError == "Cannot read properties of null (reading 'goto')"

Unsettled == [settled |-> FALSE, kind |-> "", message |-> ""]

\* a call that has not begun
IdleCall ==
  [pc |-> "idle", fetches |-> 0, browser |-> 0, using |-> 0, closing |-> 0,
   retries |-> 0, attempts |-> 0, waits |-> 0, lastError |-> "",
   pending |-> Unsettled, out |-> Unsettled]

\* what the call resolves to or rejects with
Returned(kind, message) == [settled |-> TRUE, kind |-> kind, message |-> message]

\* the finally block: scraper.js lines 157-161 close the call's own browser,
\* index.js lines 595-597 and 380-388 close globalBrowser; without a browser
\* to close the call settles
Finally(f, c, outcome) ==
  LET toClose == IF f.variant = "shared" THEN f.globalBrowser ELSE f.calls[c].browser
  IN IF toClose # 0
       THEN [f EXCEPT !.calls[c].pc = "close", !.calls[c].closing = toClose,
                      !.calls[c].using = 0, !.calls[c].pending = outcome]
       ELSE [f EXCEPT !.calls[c].pc = "done", !.calls[c].using = 0, !.calls[c].out = outcome]

\* the catch block and then the finally block: scraper.js lines 154-156
\* throw a wrapped error, index.js lines 579-594 return an error object
Catch(f, c, message) ==
  Finally(f, c, IF f.variant = "shared" THEN Returned("error object", message)
                ELSE Returned("exception", "Failed to scrape profile: " \o message))

\* an operation on globalPage (index.js line 398): a TypeError when it is null
OnGlobalPage(f, c, pc) ==
  IF f.globalPage = 0 THEN Catch(f, c, NullPageError)
  ELSE [f EXCEPT !.calls[c].pc = pc, !.calls[c].using = f.globalPage]

\* part_004 lines 58-63 without the throw of line 60: the loop waits after
\* every failure and ends when retries is 0
AfterGotoFailureNeverThrows(f, c, error) ==
  [f EXCEPT !.calls[c].retries = @ - 1, !.calls[c].lastError = error,
            !.calls[c].pc = "wait", !.calls[c].waits = @ + 1]

\* part_004 lines 58-63: the catch of the retry loop
AfterGotoFailure(f, c, error) ==
  LET retries == f.calls[c].retries - 1
  IN IF retries = 0
       THEN Catch([f EXCEPT !.calls[c].retries = retries, !.calls[c].lastError = error],
                  c, error)
       ELSE [f EXCEPT !.calls[c].retries = retries, !.calls[c].lastError = error,
                      !.calls[c].pc = "wait", !.calls[c].waits = @ + 1]

Fetchers == 1..MaxFetchers

FetcherInit ==
  /\ jobs = <<>>
  /\ loops = <<>>
  /\ res = NoResponse
  /\ fn \in {[variant |-> variant, calls |-> [c \in 1..n |-> IdleCall], browsers |-> <<>>,
               globalBrowser |-> 0, globalPage |-> 0]
              : variant \in Variants, n \in 1..MaxFetchers}

Calling(c, pc) == c \in DOMAIN fn.calls /\ fn.calls[c].pc = pc

\* the browser the call is working with is still open
Alive(c) == fn.calls[c].using # 0 /\ fn.browsers[fn.calls[c].using].open

\* a job's loop calls scrapeLinkedInProfile: up to the first await
FetchStart(c) ==
  /\ c \in DOMAIN fn.calls
  /\ fn.calls[c].pc \in {"idle", "done"}
  /\ fn.calls[c].fetches < MaxFetches
  /\ LET f == [fn EXCEPT !.calls[c] = [IdleCall EXCEPT !.fetches = fn.calls[c].fetches + 1]]
     IN fn' = IF f.variant = "shared" /\ f.globalBrowser # 0
                THEN OnGlobalPage(f, c, "goto")
                ELSE [f EXCEPT !.calls[c].pc = "launch"]
  /\ UNCHANGED <<jobs, loops, res>>

\* puppeteer.launch resolves: scraper.js line 10, index.js lines 310-322
LaunchReturn(c) ==
  /\ Calling(c, "launch")
  /\ LET b == Len(fn.browsers) + 1
         f == [fn EXCEPT !.browsers = Append(@, [owner |-> c, open |-> TRUE]),
                         !.calls[c].browser = b, !.calls[c].using = b,
                         !.calls[c].pc = "newPage"]
     IN fn' = IF fn.variant = "shared" THEN [f EXCEPT !.globalBrowser = b] ELSE f
  /\ UNCHANGED <<jobs, loops, res>>

LaunchThrow(c) ==
  /\ Calling(c, "launch")
  /\ fn' = Catch(fn, c, "Failed to launch the browser process")
  /\ UNCHANGED <<jobs, loops, res>>

\* browser.newPage() resolves: scraper.js line 21, index.js lines 322-325
NewPageReturn(c) ==
  /\ Calling(c, "newPage")
  /\ Alive(c)
  /\ fn' = IF fn.variant = "shared"
             THEN [fn EXCEPT !.globalPage = fn.calls[c].browser,
                             !.calls[c].using = fn.calls[c].browser,
                             !.calls[c].pc = "setup"]
             ELSE [fn EXCEPT !.calls[c].pc = "setup"]
  /\ UNCHANGED <<jobs, loops, res>>

\* the page is set up (user agent, viewport, interception): the call goes
\* on to page.goto, part_004 with retries = 3
SetupReturn(c) ==
  /\ Calling(c, "setup")
  /\ Alive(c)
  /\ fn' = IF fn.variant = "shared" THEN OnGlobalPage(fn, c, "goto")
             ELSE [fn EXCEPT !.calls[c].pc = "goto", !.calls[c].attempts = 1,
                             !.calls[c].retries = IF fn.variant = "part_004" THEN Retries ELSE 0]
  /\ UNCHANGED <<jobs, loops, res>>

\* page.goto resolves: the call waits for the content
GotoReturn(c) ==
  /\ Calling(c, "goto")
  /\ Alive(c)
  /\ fn' = IF fn.variant = "shared" THEN OnGlobalPage(fn, c, "content")
             ELSE [fn EXCEPT !.calls[c].pc = "content"]
  /\ UNCHANGED <<jobs, loops, res>>

\* page.goto rejects
GotoThrow(c, error) ==
  /\ Calling(c, "goto")
  /\ fn' = IF fn.variant = "part_004" THEN AfterGotoFailure(fn, c, error)
             ELSE Catch(fn, c, error)
  /\ UNCHANGED <<jobs, loops, res>>

\* part_004 lines 62 and 51: the 5 seconds are over; while (retries > 0)
\* the loop calls page.goto again, else the call goes on to the content
RetryWaitElapsed(c) ==
  /\ Calling(c, "wait")
  /\ fn' = IF fn.calls[c].retries > 0
             THEN [fn EXCEPT !.calls[c].pc = "goto", !.calls[c].attempts = @ + 1]
             ELSE [fn EXCEPT !.calls[c].pc = "content"]
  /\ UNCHANGED <<jobs, loops, res>>

\* the content is there and is extracted: return data, then finally
ContentReturn(c) ==
  /\ Calling(c, "content")
  /\ Alive(c)
  /\ fn' = Finally(fn, c, Returned("data", ""))
  /\ UNCHANGED <<jobs, loops, res>>

\* newPage, the set-up or the wait for the content rejects: a timeout, the
\* login wall, a browser that was closed meanwhile
PageThrow(c, message) ==
  /\ c \in DOMAIN fn.calls
  /\ fn.calls[c].pc \in {"newPage", "setup", "content"}
  /\ fn' = Catch(fn, c, message)
  /\ UNCHANGED <<jobs, loops, res>>

\* browser.close() resolves: the call settles; cleanupBrowser resets the
\* globals (index.js lines 384-386)
CloseReturn(c) ==
  /\ Calling(c, "close")
  /\ LET f == [fn EXCEPT !.browsers[fn.calls[c].closing].open = FALSE,
                         !.calls[c].pc = "done",
                         !.calls[c].out = fn.calls[c].pending,
                         !.calls[c].pending = Unsettled]
     IN fn' = IF fn.variant = "shared"
                THEN [f EXCEPT !.globalBrowser = 0, !.globalPage = 0]
                ELSE f
  /\ UNCHANGED <<jobs, loops, res>>

PageErrors == {"LinkedIn login required"}

FetcherNext ==
  \/ \E c \in Fetchers : FetchStart(c)
  \/ \E c \in Fetchers : LaunchReturn(c)
  \/ \E c \in Fetchers : LaunchThrow(c)
  \/ \E c \in Fetchers : NewPageReturn(c)
  \/ \E c \in Fetchers : SetupReturn(c)
  \/ \E c \in Fetchers : GotoReturn(c)
  \/ \E c \in Fetchers, error \in GotoErrors : GotoThrow(c, error)
  \/ \E c \in Fetchers : RetryWaitElapsed(c)
  \/ \E c \in Fetchers : ContentReturn(c)
  \/ \E c \in Fetchers, message \in PageErrors : PageThrow(c, message)
  \/ \E c \in Fetchers : CloseReturn(c)

FetcherSpec == FetcherInit /\ [][FetcherNext]_vars

\* one job with the fetcher of part_004
RetryInit ==
  /\ jobs = <<>>
  /\ loops = <<>>
  /\ res = NoResponse
  /\ fn = [variant |-> "part_004", calls |-> <<IdleCall>>, browsers |-> <<>>,
           globalBrowser |-> 0, globalPage |-> 0]

RetrySpec == RetryInit /\ [][FetcherNext]_vars

-----------------------------------------------------------------------------
(* The server with the hybrid or the Gemini fetcher (src/unnamed/part_003) *)

WordChars == LowerCase \o UpperCase \o "0123456789_"

\* s.replace(/-/g, ' ').replace(/\b\w/g, l => l.toUpperCase()); boundary
\* tells whether the character before s is not a word character
RECURSIVE TitleCase(_, _)
TitleCase(s, boundary) ==
  IF s = "" THEN ""
  ELSE LET ch == IF CharAt(s, 1) = "-" THEN " " ELSE CharAt(s, 1)
           k == IndexOf(LowerCase, ch)
       IN (IF boundary /\ k # -1 THEN CharAt(UpperCase, k + 1) ELSE ch)
          \o TitleCase(SubstringFrom(s, 1), ~Includes(WordChars, ch))

\* part_003 lines 231-238
extractNameFromUrl(profileUrl) ==
  LET urlParts == Split(profileUrl, "/")
      before == IF Len(urlParts) >= 2 THEN urlParts[Len(urlParts) - 1] ELSE ""
      profileSlug == OrElse(before, urlParts[Len(urlParts)])
  IN IF profileSlug # "" /\ profileSlug # "in" THEN TitleCase(profileSlug, TRUE)
     ELSE "Unknown Professional"

mockTitles ==
  <<"Senior Manager", "Product Manager", "Business Analyst", "Marketing Director",
    "Operations Manager", "Strategy Consultant", "Finance Manager", "Project Manager">>

mockCompanies ==
  <<"Tech Solutions Pte Ltd", "Global Consulting Group", "Innovation Partners",
    "Strategic Ventures", "Digital Transformation Co", "Business Excellence Ltd",
    "Future Technologies", "Growth Partners">>

mockLocations ==
  <<"Singapore", "Kuala Lumpur, Malaysia", "Bangkok, Thailand", "Jakarta, Indonesia",
    "Manila, Philippines", "Ho Chi Minh City, Vietnam">>

\* the values of the three Math.floor(Math.random() * length) that are
\* followed here: a company with and one without 'Tech'
MockPicks == {[title |-> 0, company |-> 0, location |-> 0],
              [title |-> 7, company |-> 7, location |-> 5]}

\* randomTitle.toLowerCase() for each of the titles, computed once
lowerTitles == [t \in DOMAIN mockTitles |-> ToLowerCase(mockTitles[t])]

\* part_003 lines 280-338
generateMockProfileData(profileUrl, pick) ==
  LET randomTitle == mockTitles[pick.title + 1]
      randomCompany == mockCompanies[pick.company + 1]
      randomLocation == mockLocations[pick.location + 1]
  IN [name |-> extractNameFromUrl(profileUrl),
      title |-> randomTitle,
      company |-> randomCompany,
      location |-> randomLocation,
      about |-> "Experienced professional with expertise in " \o lowerTitles[pick.title + 1]
                \o " and business development. Passionate about driving growth and"
                \o " innovation in the "
                \o (IF Includes(randomCompany, "Tech") THEN "technology" ELSE "business")
                \o " sector.",
      education |-> <<"MBA, Asian School of Business", "Bachelor of Business Administration">>,
      pastRoles |-> <<[title |-> "Senior Analyst", company |-> "Previous Company Ltd",
                       years |-> "2020-2023"],
                      [title |-> "Business Associate", company |-> "Startup Ventures",
                       years |-> "2018-2020"]>>]

\* fetchLinkedInHTML (lines 38-119) resolves to null when the fetch failed
\* or met the login wall
NullHtml == "<null>"
HtmlContents == {NullHtml, "<html><body>Jane Doe</body></html>"}

\* how the call of the backend (lines 121-229, 377-463) settles
AnalysisOutcomes ==
  {[threw |-> TRUE, message |-> "[GoogleGenerativeAI Error]: fetch failed", value |-> ScrapedEmpty],
   [threw |-> FALSE, message |-> "", value |-> ScrapedFull]}

\* the hybrid scrapeLinkedInProfile without its catch: the backend's error
\* is the call's
HybridScrapeUncaught(configured, htmlContent, analysis, mockData) ==
  IF configured /\ htmlContent # NullHtml
    THEN analysis
    ELSE [threw |-> FALSE, message |-> "", value |-> mockData]

\* scrapeLinkedInProfile of the hybrid variant, lines 15-36; mockData is
\* what generateMockProfileData(profileUrl) returns in this call.  The
\* Gemini variant (lines 352-375) is the same without the HTML fetch,
\* htmlContent being some content
HybridScrape(configured, htmlContent, analysis, mockData) ==
  IF configured /\ htmlContent # NullHtml /\ ~analysis.threw
    THEN analysis
    ELSE [threw |-> FALSE, message |-> "", value |-> mockData]

\* the URL of the item loop w is at
ItemUrl(w) == jobs[loops[w].jobId].profiles[loops[w].i + 1].linkedin_url

\* the awaited scrapeLinkedInProfile(profile.linkedin_url) of the hybrid
\* variant settles
HybridSettle(w, pick) ==
  /\ At(w, "scrape")
  /\ LET mockData == generateMockProfileData(ItemUrl(w), pick)
     IN \E configured \in BOOLEAN, htmlContent \in HtmlContents, analysis \in AnalysisOutcomes :
          LET settled == HybridScrape(configured, htmlContent, analysis, mockData)
          IN IF settled.threw THEN ScrapeThrow(w, settled.message)
             ELSE ScrapeReturn(w, settled.value)

\* the most loop iterations and ends the loops started here go through
MaxHybridWork == 3

\* the start handler while the loops stay within MaxHybridWork
HybridStart(jobId) ==
  /\ HasJob(jobId) => Committed(loops) + 1 + Len(jobs[jobId].profiles) <= MaxHybridWork
  /\ Start(jobId)

HybridNext ==
  \/ \E file \in CsvFiles : Upload(file)
  \/ UploadNoFile
  \/ UploadParseError
  \/ \E jobId \in RequestIds : HybridStart(jobId)
  \/ \E jobId \in RequestIds : Poll(jobId)
  \/ \E w \in LoopIds, pick \in MockPicks : HybridSettle(w, pick)
  \/ \E w \in LoopIds, summary \in SummaryOutputs : SummaryReturn(w, summary)
  \/ \E w \in LoopIds : SummaryThrow(w)
  \/ \E w \in LoopIds : DelayElapsed(w)

HybridSpec == Init /\ [][HybridNext]_vars

-----------------------------------------------------------------------------
(* Properties *)

Terminal == {"completed", "failed"}

\* the processScrapingJob calls made for a job
LoopsOf(jobId) == {w \in LoopIds : loops[w].jobId = jobId}

\* the fetches of a job that are in flight
FetchesOf(jobId) == {w \in LoopsOf(jobId) : loops[w].pc = "scrape"}

\* the positions of a job's results whose record has the given status
WithStatus(job, status) == {k \in DOMAIN job.results : job.results[k].status = status}

\* C1: in every reachable state each job has processedProfiles =
\* successfulProfiles + failedProfiles and processedProfiles <= totalProfiles.
C1_CountersWithinTotal ==
  \A jobId \in DOMAIN jobs :
    LET job == jobs[jobId]
    IN /\ job.processedProfiles = job.successfulProfiles + job.failedProfiles
       /\ job.processedProfiles <= job.totalProfiles

\* C2: a job with a non-empty URL list that is completed or failed has
\* processedProfiles = successfulProfiles + failedProfiles = number of input URLs.
C2_TerminalCountsPartitionInput ==
  \A jobId \in DOMAIN jobs :
    LET job == jobs[jobId]
    IN (Len(job.profiles) > 0 /\ job.status \in Terminal)
         => /\ job.processedProfiles = job.successfulProfiles + job.failedProfiles
            /\ job.processedProfiles = Len(job.profiles)

\* C3: a start request for a job that is running or completed is answered with
\* an error and changes neither the job nor the set of processing loops.
C3_StartOnStartedJobRejected ==
  [][\A jobId \in DOMAIN jobs :
       (jobs[jobId].status \in {"running", "completed"} /\ Start(jobId))
         => (res'.code >= 400 /\ UNCHANGED <<jobs, loops>>)]_vars

\* C4: once a job is completed or failed its status never changes again.
C4_TerminalIsFinal ==
  [][\A jobId \in DOMAIN jobs :
       jobs[jobId].status \in Terminal => jobs'[jobId].status = jobs[jobId].status]_vars

\* C5: a fetch that throws is absorbed: no job ever becomes failed, the step that
\* handles the throw counts the item as failed and moves the loop on to the next
\* URL (or completes the job after the last one), and a job run by one loop to
\* completion has one record per URL, in input order, with successfulProfiles
\* and failedProfiles counting the records of each status.
C5_ThrowStepAbsorbed ==
  \A w \in LoopIds, message \in ScrapeErrors :
    ScrapeThrow(w, message) =>
      LET l == loops[w]
          job == jobs[l.jobId]
          after == jobs'[l.jobId]
      IN /\ after.failedProfiles = job.failedProfiles + 1
         /\ after.successfulProfiles = job.successfulProfiles
         /\ after.processedProfiles = job.processedProfiles + 1
         /\ IF l.i < Len(job.profiles) - 1
              THEN loops'[w].pc = "delay" /\ after.status = job.status
              ELSE loops'[w].pc = "done" /\ after.status = "completed"

C5_RunOnceCounts ==
  \A jobId \in DOMAIN jobs :
    LET job == jobs[jobId]
    IN /\ job.status # "failed"
       /\ (job.status = "completed" /\ Cardinality(LoopsOf(jobId)) = 1)
            => /\ Len(job.results) = Len(job.profiles)
               /\ \A k \in DOMAIN job.results :
                    /\ job.results[k].id = k - 1
                    /\ job.results[k].status \in {"success", "failed"}
               /\ job.failedProfiles = Cardinality(WithStatus(job, "failed"))
               /\ job.successfulProfiles = Cardinality(WithStatus(job, "success"))

C5_FailuresAbsorbed == []C5_RunOnceCounts /\ [][C5_ThrowStepAbsorbed]_vars

\* a 3-URL job run once to completion in which exactly one fetch threw, and it
\* was not the last one
C5_Witness ==
  \E jobId \in DOMAIN jobs :
    LET job == jobs[jobId]
    IN /\ Len(job.profiles) = 3
       /\ Cardinality(LoopsOf(jobId)) = 1
       /\ job.status = "completed"
       /\ job.results[1].status = "failed"
       /\ job.successfulProfiles = 2
       /\ job.failedProfiles = 1

\* C6: within a job the records are in input order: a record for a later input
\* position never precedes a record for an earlier one.
C6_ResultsInInputOrder ==
  \A jobId \in DOMAIN jobs :
    LET results == jobs[jobId].results
    IN \A a, b \in DOMAIN results : a < b => results[a].id <= results[b].id

\* C7: at no time are two fetches of the same job in flight.
C7_OneFetchPerJob ==
  \A jobId \in DOMAIN jobs : Cardinality(FetchesOf(jobId)) <= 1

\* C8: a summarizer that throws fails neither the item nor the job: the step
\* that handles the throw appends a record with status success and a non-empty
\* summary, counts the item as successful, and moves on to the next URL or
\* completes the job; every success record has a non-empty summary and no job
\* is ever failed.
C8_ThrowStepKeepsItem ==
  \A w \in LoopIds :
    SummaryThrow(w) =>
      LET l == loops[w]
          job == jobs[l.jobId]
          after == jobs'[l.jobId]
      IN /\ Len(after.results) = Len(job.results) + 1
         /\ after.results[Len(after.results)].status = "success"
         /\ after.results[Len(after.results)].id = l.i
         /\ after.results[Len(after.results)].summary # ""
         /\ after.successfulProfiles = job.successfulProfiles + 1
         /\ after.failedProfiles = job.failedProfiles
         /\ after.errors = job.errors
         /\ IF l.i < Len(job.profiles) - 1
              THEN loops'[w].pc = "delay" /\ after.status = job.status
              ELSE loops'[w].pc = "done" /\ after.status = "completed"

C8_SuccessHasSummary ==
  \A jobId \in DOMAIN jobs :
    /\ jobs[jobId].status # "failed"
    /\ \A k \in WithStatus(jobs[jobId], "success") : jobs[jobId].results[k].summary # ""

C8_SummaryFailureAbsorbed == []C8_SuccessHasSummary /\ [][C8_ThrowStepKeepsItem]_vars

\* a completed job, run once, whose every fetch returned an about text and whose
\* every summarizer call threw
C8_Witness ==
  \E jobId \in DOMAIN jobs :
    LET job == jobs[jobId]
    IN /\ Len(job.profiles) >= 2
       /\ Cardinality(LoopsOf(jobId)) = 1
       /\ job.status = "completed"
       /\ \A k \in DOMAIN job.results :
            /\ job.results[k].status = "success"
            /\ job.results[k].summary = SummaryFallback(ScrapedFull.about)

\* the URLs of an uploaded file that pass the validator
RECURSIVE ValidUrls(_)
ValidUrls(rows) ==
  IF rows = <<>> THEN <<>>
  ELSE (IF isValidLinkedInUrl(Head(rows).linkedin_url) THEN <<Head(rows).linkedin_url>> ELSE <<>>)
         \o ValidUrls(Tail(rows))

\* C9: an upload whose list holds no valid URL is answered with an error and
\* adds no job to the registry.
C9_UploadWithoutValidUrlRejected ==
  [][\A file \in CsvFiles :
       (ValidUrls(file) = <<>> /\ Upload(file)) => (res'.code >= 400 /\ jobs' = jobs)]_vars

\* C10: every URL a job counts in totalProfiles passes the validator, and so
\* does every URL handed to the fetcher.
C10_OnlyValidUrlsCountedAndFetched ==
  /\ \A jobId \in DOMAIN jobs :
       /\ jobs[jobId].totalProfiles = Len(jobs[jobId].profiles)
       /\ \A k \in DOMAIN jobs[jobId].profiles :
            isValidLinkedInUrl(jobs[jobId].profiles[k].linkedin_url)
  /\ \A w \in LoopIds :
       loops[w].pc = "scrape"
         => isValidLinkedInUrl(jobs[loops[w].jobId].profiles[loops[w].i + 1].linkedin_url)

\* C11: a start request or a status poll that names a job id absent from the
\* registry is answered with the not-found error, creates no job and
\* changes no existing job (nor any processing loop).
C11_UnknownJobNotFound ==
  [][\A jobId \in RequestIds :
        (~HasJob(jobId) /\ (Start(jobId) \/ Poll(jobId)))
          => (/\ res'.code = 404
              /\ res'.body = [error |-> "Job not found"]
              /\ jobs' = jobs
              /\ loops' = loops)]_vars

\* an unknown id was just refused while a job is in the registry and running
C11_Witness ==
  /\ res = NotFound
  /\ \E jobId \in JobIds : HasJob(jobId) /\ jobs[jobId].status = "running"
  /\ \E w \in LoopIds : loops[w].pc = "scrape"

\* the counters of a job agree with its results
Consistent(job) ==
  /\ job.processedProfiles = Len(job.results)
  /\ job.successfulProfiles = Cardinality(WithStatus(job, "success"))
  /\ job.failedProfiles = Cardinality(WithStatus(job, "failed"))
  /\ job.processedProfiles = job.successfulProfiles + job.failedProfiles

\* the response carries a job (the answer of a poll or of a start)
IsSnapshot(r) == r.code = 200 /\ "results" \in DOMAIN r.body

C12_Untorn ==
  /\ \A jobId \in DOMAIN jobs : Consistent(jobs[jobId])
  /\ IsSnapshot(res) => Consistent(res.body)

C12_PollStep ==
  \A jobId \in JobIds :
    (HasJob(jobId) /\ Poll(jobId))
      => (/\ res'.code = 200
          /\ res'.body = jobs[jobId]
          /\ res'.body.processedProfiles = Len(jobs[jobId].results)
          /\ jobs' = jobs
          /\ loops' = loops)

\* C12: a status poll answers with the job as it stands: after k items were
\* handled it shows processedProfiles = k together with k results and
\* success and failure counters that add up to k (no item is half
\* recorded), and the poll changes neither the job nor its loops.
C12_PollSeesHandledItems == []C12_Untorn /\ [][C12_PollStep]_vars

\* a poll between the first and the second item of a job of three, started once
C12_Witness ==
  /\ IsSnapshot(res)
  /\ res.body.totalProfiles = 3
  /\ res.body.processedProfiles = 1
  /\ Len(res.body.results) = 1
  /\ res.body.status = "running"
  /\ Len(loops) = 1
  /\ loops[1].pc = "delay"

C13_Completes ==
  \A jobId \in JobIds :
    (HasJob(jobId) /\ jobs[jobId].status = "running")
      ~> (HasJob(jobId) /\ jobs[jobId].status = "completed")

C13_CompletingStep ==
  \A jobId \in DOMAIN jobs :
    (jobs[jobId].status # "completed" /\ jobs'[jobId].status = "completed")
      => (/\ jobs'[jobId].completedAt = "set"
          /\ jobs'[jobId].currentProfile = Undefined)

\* C13: when every fetch and every summarizer call eventually returns or
\* throws, every started (running) job eventually becomes completed; the
\* step that makes it completed sets completedAt and clears currentProfile.
C13_StartedJobCompletes == C13_Completes /\ [][C13_CompletingStep]_vars

\* a job of three URLs, started once, has been worked through to completed
C13_Witness ==
  \E jobId \in DOMAIN jobs :
    /\ jobs[jobId].status = "completed"
    /\ jobs[jobId].totalProfiles = 3
    /\ jobs[jobId].processedProfiles = 3
    /\ jobs[jobId].completedAt = "set"
    /\ jobs[jobId].currentProfile = Undefined
    /\ Cardinality(LoopsOf(jobId)) = 1

\* C14: the summary stored in a record is at most 150 characters long,
\* whatever the about text and however the summarizer call ended (a return
\* of any length, or an error); a longer text is cut to 147 characters
\* followed by "...".
C14_StoredSummaryWithin150 ==
  (fn.op = "storeSummary" /\ fn.out # Undefined)
    => (/\ Len(fn.out) <= 150
        /\ \A outcome \in SummarizerOutcomes(fn.arg) :
             (~outcome.threw /\ fn.arg # "" /\ Len(outcome.value) > 150)
               => StoredSummary(fn.arg, outcome) = Substring0(outcome.value, 147) \o "...")

\* C15: generateSummary never raises and returns a non-empty string for every
\* argument (absent, empty, shorter than 10 characters, longer, not a
\* string), whichever template Math.random picks.
C15_SummaryAlwaysReturnsText ==
  (fn.op = "generateSummary" /\ fn.out # Undefined)
    => (fn.out # Raised /\ fn.out # "" /\ Len(fn.out) > 0)

\* the call with an argument that is not a string was answered by the catch
C15_Witness ==
  /\ fn.op = "generateSummary"
  /\ fn.arg = NonString
  /\ fn.out = "Professional with diverse experience and expertise."

\* the three ways of the claim in which a URL is not a profile URL
NotWellFormed(url) == ~ParseUrl(url).ok
HostDiffers(url) == ParseUrl(url).ok /\ ParseUrl(url).hostname # "www.linkedin.com"
PathNotProfile(url) ==
  /\ ParseUrl(url).ok
  /\ ~\E n \in 1..Len(ParseUrl(url).pathname) :
        /\ n >= 1
        /\ Len(ParseUrl(url).pathname) = 4 + n
        /\ SubSeq(ParseUrl(url).pathname, 1, 4) = "/in/"

\* C16: isValidLinkedInUrl answers false for every text that is not a
\* well-formed URL, for every URL whose host is not www.linkedin.com and for
\* every URL whose path is not /in/ followed by at least one character (the
\* bare domain, the bare /in/), and true for exactly the remaining URLs.
C16_ValidatorAcceptsExactlyProfileUrls ==
  (fn.op = "isValidLinkedInUrl" /\ fn.done)
    => (fn.out = ~(NotWellFormed(fn.arg) \/ HostDiffers(fn.arg) \/ PathNotProfile(fn.arg)))

\* the bare /in/ path on the right host was refused
C16_Witness ==
  /\ fn.op = "isValidLinkedInUrl"
  /\ fn.done
  /\ fn.arg = "https://www.linkedin.com/in/"
  /\ fn.out = FALSE

\* C17: every record in a job's results has status success or failed, and
\* carries an error text exactly when its status is failed, whether the
\* fetch returned data, threw, or returned an error-shaped object.
C17_StatusAndErrorAgree ==
  \A jobId \in DOMAIN jobs :
    \A k \in DOMAIN jobs[jobId].results :
      LET record == jobs[jobId].results[k]
      IN /\ record.status \in {"success", "failed"}
         /\ (record.error # Undefined) <=> (record.status = "failed")
         /\ record.status = "failed" => record.error # ""

\* a job whose three fetches ended in the three ways: data, a throw, and an
\* error-shaped object (recorded under the name the object carries)
C17_Witness ==
  \E jobId \in DOMAIN jobs :
    LET results == jobs[jobId].results
    IN /\ \E k \in DOMAIN results : results[k].name = "Jane Doe"
       /\ \E k \in DOMAIN results : results[k].status = "failed"
       /\ \E k \in DOMAIN results :
            /\ results[k].name = "Unknown"
            /\ jobs[jobId].profiles[results[k].id + 1].name # ""
            /\ results[k].status = "success"

\* a loop waits only after an item that is counted and is not the last one,
\* and it ends only past the last item
C18_DelayPlacement ==
  \A w \in LoopIds :
    LET l == loops[w]
        job == jobs[l.jobId]
    IN /\ l.pc = "delay" => (l.i < Len(job.profiles) - 1 /\ job.processedProfiles >= l.i + 1)
       /\ l.pc \in {"scrape", "summary"} => l.i < Len(job.profiles)
       /\ l.pc = "done" => l.i = Len(job.profiles)

\* a loop goes from item i to item i + 1 through exactly one delay, and from
\* the last item straight to the end, where the job becomes completed
C18_LoopAdvance ==
  \A w \in LoopIds :
    LET l == loops[w]
        next == loops'[w]
        n == Len(jobs[l.jobId].profiles)
        handled == jobs'[l.jobId].processedProfiles = jobs[l.jobId].processedProfiles + 1
    IN (next # l) =>
         \/ l.pc = "delay" /\ next.pc = "scrape" /\ next.i = l.i + 1
         \/ l.pc = "scrape" /\ next.pc = "summary" /\ next.i = l.i
         \/ /\ l.pc \in {"scrape", "summary"}
            /\ handled
            /\ IF l.i < n - 1
                 THEN next.pc = "delay" /\ next.i = l.i
                 ELSE next.pc = "done" /\ next.i = n /\ jobs'[l.jobId].status = "completed"

\* C18: the delay is taken between consecutive items only: a loop over n
\* URLs waits once after each of the items 1..n-1, after the item is counted
\* and before the next one is fetched (n - 1 delays), and after the last
\* item it completes the job without waiting.
C18_DelayOnlyBetweenItems == []C18_DelayPlacement /\ [][C18_LoopAdvance]_vars

\* a job of three URLs, started once, is waiting between its second and its
\* third item
C18_Witness ==
  /\ Len(loops) = 1
  /\ loops[1].pc = "delay"
  /\ loops[1].i = 1
  /\ jobs[loops[1].jobId].totalProfiles = 3
  /\ jobs[loops[1].jobId].processedProfiles = 2

\* C19 as stated: a URL whose fetch fails leaves no record: results holds
\* as many records as successfulProfiles counts and none of them is failed.
C19_FailedFetchLeavesNoRecord ==
  \A jobId \in DOMAIN jobs :
    /\ Len(jobs[jobId].results) = jobs[jobId].successfulProfiles
    /\ WithStatus(jobs[jobId], "failed") = {}

\* C19 amended: a URL whose fetch fails produces a record with status failed
\* that carries the error message, and an entry "url: message" in the errors
\* list: results holds successfulProfiles + failedProfiles records, as many
\* failed ones as failedProfiles counts and as errors has entries.
C19_FailedFetchRecordedAsFailed ==
  \A jobId \in DOMAIN jobs :
    LET job == jobs[jobId]
    IN /\ Len(job.results) = job.successfulProfiles + job.failedProfiles
       /\ Cardinality(WithStatus(job, "failed")) = job.failedProfiles
       /\ Len(job.errors) = job.failedProfiles
       /\ \A k \in WithStatus(job, "failed") :
            \E e \in DOMAIN job.errors :
              job.errors[e] = job.results[k].linkedinUrl \o ": " \o job.results[k].error

\* a fetch failed and one succeeded: two records, one of them failed
C19_Witness ==
  \E jobId \in DOMAIN jobs :
    /\ jobs[jobId].failedProfiles = 1
    /\ jobs[jobId].successfulProfiles = 1
    /\ Len(jobs[jobId].results) = 2
    /\ Len(jobs[jobId].errors) = 1
    /\ Cardinality(WithStatus(jobs[jobId], "failed")) = 1

C20_OneRecordPerProcessed ==
  \A jobId \in DOMAIN jobs : Len(jobs[jobId].results) = jobs[jobId].processedProfiles

C20_AppendOnly ==
  \A jobId \in DOMAIN jobs :
    /\ Len(jobs'[jobId].results) >= Len(jobs[jobId].results)
    /\ SubSeq(jobs'[jobId].results, 1, Len(jobs[jobId].results)) = jobs[jobId].results

\* C20: every processed URL has one record, succeeded or failed: results is
\* as long as processedProfiles counts, and a record that was appended is
\* never changed or removed (results only grows at its end).
C20_RecordsKept == []C20_OneRecordPerProcessed /\ [][C20_AppendOnly]_vars

\* a job of three processed URLs with records of both kinds
C20_Witness ==
  \E jobId \in DOMAIN jobs :
    /\ jobs[jobId].processedProfiles = 3
    /\ Len(jobs[jobId].results) = 3
    /\ WithStatus(jobs[jobId], "success") # {}
    /\ WithStatus(jobs[jobId], "failed") # {}

\* the outer catch has left its entry in the job's errors
Aborted(job) == \E e \in DOMAIN job.errors : StartsWith(job.errors[e], "Job failed: ")

C21_EntriesMatchCounter ==
  \A jobId \in DOMAIN jobs :
    ~Aborted(jobs[jobId]) => Len(jobs[jobId].errors) = jobs[jobId].failedProfiles

\* a step that counts a failed item appends one entry that starts with the
\* URL of an item being fetched, and counts one
C21_FailedItemStep ==
  \A jobId \in DOMAIN jobs :
    LET job == jobs[jobId]
        after == jobs'[jobId]
    IN (after.failedProfiles # job.failedProfiles) =>
         /\ after.failedProfiles = job.failedProfiles + 1
         /\ Len(after.errors) = Len(job.errors) + 1
         /\ SubSeq(after.errors, 1, Len(job.errors)) = job.errors
         /\ \E w \in FetchesOf(jobId) :
              StartsWith(after.errors[Len(after.errors)],
                         job.profiles[loops[w].i + 1].linkedin_url \o ": ")

\* C21: each failed item appends exactly one entry to the job's errors that
\* names the failing URL and adds one to failedProfiles, so a job that was
\* not aborted by the outer catch has as many entries as failedProfiles.
C21_OneEntryPerFailedItem == []C21_EntriesMatchCounter /\ [][C21_FailedItemStep]_vars

\* two items of a job failed, the job was not aborted
C21_Witness ==
  \E jobId \in DOMAIN jobs :
    /\ ~Aborted(jobs[jobId])
    /\ jobs[jobId].failedProfiles = 2
    /\ Len(jobs[jobId].errors) = 2

C28_AbortStep ==
  \A jobId \in DOMAIN jobs :
    LET job == jobs[jobId]
        after == jobs'[jobId]
    IN (job.status # "failed" /\ after.status = "failed") =>
         /\ after.results = job.results
         /\ after.processedProfiles = job.processedProfiles
         /\ after.successfulProfiles = job.successfulProfiles
         /\ after.failedProfiles = job.failedProfiles
         /\ Len(after.errors) = Len(job.errors) + 1
         /\ SubSeq(after.errors, 1, Len(job.errors)) = job.errors
         /\ StartsWith(after.errors[Len(after.errors)], "Job failed: ")

\* a failed job still holds what it had collected: its counters agree with
\* its results and its errors hold one entry per failed item besides the
\* abort's
C28_FailedJobKeepsData ==
  \A jobId \in DOMAIN jobs :
    jobs[jobId].status = "failed" =>
      /\ Len(jobs[jobId].results) = jobs[jobId].processedProfiles
      /\ Len(jobs[jobId].errors) > jobs[jobId].failedProfiles

\* C28: the step that aborts a job to failed (an exception escaping the
\* per-item handling) leaves results, processedProfiles, successfulProfiles
\* and failedProfiles as they were and appends one entry describing the
\* failure to the job's errors.
C28_AbortKeepsCollectedData == []C28_FailedJobKeepsData /\ [][C28_AbortStep]_vars

\* a job was aborted at its third item, after one success and one failure
C28_Witness ==
  \E jobId \in DOMAIN jobs :
    /\ jobs[jobId].status = "failed"
    /\ jobs[jobId].processedProfiles = 2
    /\ jobs[jobId].successfulProfiles = 1
    /\ jobs[jobId].failedProfiles = 1
    /\ Len(jobs[jobId].results) = 2
    /\ Len(jobs[jobId].errors) = 2

\* the items of a job that are in flight: fetched or summarised by a
\* processScrapingJob call
InFlight(jobId) == {w \in LoopsOf(jobId) : loops[w].pc \in {"scrape", "summary"}}

\* C22: in every reachable state a job's currentProfile is non-empty exactly
\* when its status is running and an item is in flight; it is empty while
\* the job is pending, during the delay between items and in the terminal
\* states completed and failed.
C22_CurrentProfileIffInFlight ==
  \A jobId \in DOMAIN jobs :
    jobs[jobId].currentProfile # Undefined
      <=> (jobs[jobId].status = "running" /\ InFlight(jobId) # {})

\* a call of generateSummary(fn.arg) that follows an earlier call with the
\* same text returns what the earlier call returned
C25_SecondCallAgrees ==
  (fn.op = "generateSummary" /\ fn.out # Undefined /\ fn'.arg = fn.arg) => fn'.out = fn.out

\* C25: the local summarization path is deterministic: two calls of
\* generateSummary with the same about text return the same string.
C25_SameTextSameSummary == [][C25_SecondCallAgrees]_vars

\* the calls of the extractor that have run
Extracted(op) == fn.op = op /\ fn.out.done

\* the positions of the candidates that yield non-empty trimmed text
Yielding(elements) ==
  {k \in DOMAIN elements : elements[k].length > 0 /\ Trim(elements[k].text) # ""}

\* the trimmed text of the first candidate that yields some, "" when none does
Chosen(elements) ==
  IF Yielding(elements) = {} THEN ""
  ELSE Trim(elements[CHOOSE k \in Yielding(elements) : \A m \in Yielding(elements) : k <= m].text)

\* title and company as the claim splits the headline: at the first
\* occurrence of " at "
SplitAtFirst(headline, title, company) ==
  LET k == IndexOf(headline, " at ")
  IN IF k # -1
       THEN title = Trim(Substring0(headline, k)) /\ company = Trim(SubstringFrom(headline, k + 4))
       ELSE title = headline /\ company = ""

\* C26: when the headline contains " at ", title is the trimmed text before
\* its first occurrence and company the trimmed text of everything after
\* its first occurrence, also when the separator occurs more than once;
\* when the headline does not contain it, title is the whole text and
\* company is empty.
C26_SplitAtFirstOccurrence ==
  /\ (Extracted("title") /\ Chosen(fn.arg) # "") =>
        SplitAtFirst(Chosen(fn.arg), fn.out.value.title, fn.out.value.company)
  /\ (Extracted("sharedTitle") /\ fn.arg.title # "" /\ fn.arg.pastRoles = <<>>) =>
        SplitAtFirst(fn.arg.title, fn.out.value.title, fn.out.value.company)

OpenBrowsers == {b \in DOMAIN fn.browsers : fn.browsers[b].open}

\* C23: whenever scrapeLinkedInProfile has returned or thrown, the browsers
\* it opened have been closed: no session opened by that call remains open.
C23_SettledCallLeavesNoBrowser ==
  \A c \in DOMAIN fn.calls :
    fn.calls[c].pc = "done" => \A b \in OpenBrowsers : fn.browsers[b].owner # c

\* C24: when jobs fetch concurrently at most one browser is open at a time,
\* a fetch works only with the browser it launched itself, that browser is
\* open while the fetch works with it, and a fetch closes only the browser
\* it launched itself.
C24_SessionsMutuallyExclusive ==
  /\ Cardinality(OpenBrowsers) <= 1
  /\ \A c \in DOMAIN fn.calls :
       /\ fn.calls[c].using # 0 =>
            /\ fn.browsers[fn.calls[c].using].owner = c
            /\ fn.calls[c].using \in OpenBrowsers
       /\ fn.calls[c].pc = "close" => fn.browsers[fn.calls[c].closing].owner = c

\* the retry loop of a call in every state: at most Retries attempts, a
\* wait after each failed attempt but the last, no wait unless another
\* attempt follows, and after the last failure the call fails with the
\* error of that attempt
C29_RetryState ==
  \A c \in DOMAIN fn.calls :
    LET call == fn.calls[c]
        outcome == IF call.pc = "close" THEN call.pending ELSE call.out
    IN /\ call.attempts <= Retries
       /\ call.pc = "goto" => call.waits = call.attempts - 1 /\ call.retries = Retries - call.waits
       /\ call.pc = "wait" =>
            call.waits = call.attempts /\ call.attempts < Retries /\ call.retries > 0
       /\ call.pc = "content" => call.waits = call.attempts - 1
       /\ (call.pc \in {"close", "done"} /\ call.attempts >= 1) =>
            \/ call.waits = call.attempts - 1 /\ call.retries > 0
            \/ /\ call.attempts = Retries /\ call.waits = Retries - 1 /\ call.retries = 0
               /\ outcome = Returned("exception", "Failed to scrape profile: " \o call.lastError)

\* the retry loop of a call step by step
C29_RetryStep ==
  \A c \in DOMAIN fn.calls :
    LET call == fn.calls[c]
        after == fn'.calls[c]
    IN /\ (after.attempts # call.attempts /\ after.attempts > 1) =>
            call.pc = "wait" /\ after.pc = "goto" /\ after.attempts = call.attempts + 1
       /\ (after.waits # call.waits /\ after.waits > 0) =>
            /\ call.pc = "goto" /\ after.pc = "wait" /\ after.waits = call.waits + 1
            /\ after.lastError \in GotoErrors
       /\ (call.pc = "goto" /\ after.pc = "content") => after.attempts = call.attempts
       /\ (call.pc = "goto" /\ call.attempts = Retries /\ after.pc \notin {"goto", "content"}) =>
            /\ after.pc \in {"close", "done"}
            /\ after.waits = call.waits
            /\ after.lastError \in GotoErrors
            /\ (IF after.pc = "close" THEN after.pending ELSE after.out)
                 = Returned("exception", "Failed to scrape profile: " \o after.lastError)

\* C29: in the retrying fetcher page.goto is attempted at most 3 times per
\* URL; the first successful attempt ends the loop without further
\* attempts; the 5-second wait occurs only after a failed attempt that is
\* followed by another attempt; after the third failure the fetch fails
\* with that attempt's error and without a wait.
C29_NavigationRetry == []C29_RetryState /\ [][C29_RetryStep]_vars

\* a fetch has failed at its third attempt, after two waits, with the error
\* of the third attempt
C29_Witness ==
  \E c \in DOMAIN fn.calls :
    /\ fn.calls[c].pc = "done"
    /\ fn.calls[c].attempts = 3
    /\ fn.calls[c].waits = 2
    /\ fn.calls[c].lastError = "net::ERR_NAME_NOT_RESOLVED"
    /\ fn.calls[c].out =
         Returned("exception", "Failed to scrape profile: net::ERR_NAME_NOT_RESOLVED")

\* C30: scrapeLinkedInProfile of the hybrid and Gemini variants never
\* throws: when the backend is not configured, the HTML fetch fails (the
\* login wall included) or the backend call errors, it returns mock profile
\* data; a job driven by these variants records every URL as a success and
\* its failedProfiles stays 0 whatever fetches fail.
C30_HybridNeverFails ==
  /\ \A jobId \in DOMAIN jobs :
       /\ jobs[jobId].failedProfiles = 0
       /\ jobs[jobId].errors = <<>>
       /\ jobs[jobId].successfulProfiles = jobs[jobId].processedProfiles
       /\ \A k \in DOMAIN jobs[jobId].results : jobs[jobId].results[k].status = "success"
  /\ \A w \in LoopIds, pick \in MockPicks :
       At(w, "scrape") =>
         LET mockData == generateMockProfileData(ItemUrl(w), pick)
         IN /\ mockData.name = extractNameFromUrl(ItemUrl(w))
            /\ \E t \in DOMAIN mockTitles : mockData.title = mockTitles[t]
            /\ \A configured \in BOOLEAN, htmlContent \in HtmlContents,
                  analysis \in AnalysisOutcomes :
                 LET settled == HybridScrape(configured, htmlContent, analysis, mockData)
                 IN /\ ~settled.threw
                    /\ (~configured \/ htmlContent = NullHtml \/ analysis.threw) =>
                         settled.value = mockData

\* a job of two URLs has completed with both recorded as successes, the
\* first with mock data
C30_Witness ==
  \E jobId \in DOMAIN jobs :
    /\ jobs[jobId].status = "completed"
    /\ jobs[jobId].successfulProfiles = 2
    /\ jobs[jobId].failedProfiles = 0
    /\ Len(jobs[jobId].results) = 2
    /\ jobs[jobId].results[1].name = "Unknown Professional"
    /\ jobs[jobId].results[1].company = "Growth Partners"


====
